---- MODULE Spec2Model ----
(***************************************************************************)
(* Model of app.py: the LM Studio streaming relay.                         *)
(*                                                                         *)
(*   LMStudioProxy._process_stream  the lazy fragment sequence read from   *)
(*                                  the upstream body, line by line        *)
(*   StoppableGenerator             the relay handle: a generator and a    *)
(*                                  stop_event                             *)
(*   generate.generate_stream       one relay (one /generate request)      *)
(*   stop_generation                one /stop request                      *)
(*   generators                     the process-wide registry              *)
(*                                                                         *)
(* Requests are served by concurrent worker threads (app.run, threaded),   *)
(* so every read or write of `generators` and of a stop_event is a step of *)
(* its own and the steps of different requests interleave.                 *)
(***************************************************************************)
EXTENDS Integers, Sequences, FiniteSets, TLC

\* ------------------------------------------------------------------ bounds
NumRelays == 2        \* /generate requests in a run of Spec
NumStops == 2         \* /stop requests in a run
NumFrags == 2         \* content lines of an upstream body in Spec
MaxLines == 3         \* lines of an upstream body in SpecStream

Relays == 1 .. NumRelays
Stoppers == 1 .. NumStops
SessionIds == {"s1", "s2"}
NoSession == ""
None == 0             \* no handle: a key absent from the dict

\* ------------------------------------------------- upstream lines and JSON
\* A line of the upstream body after decode and strip: the text `prefix rest`.
\* line.startswith('data: ') is prefix = DataPrefix, line[6:] is rest.
DataPrefix == "data: "
Line(p, r) == [prefix |-> p, rest |-> r]

ChunkText(c) ==
    CASE c = "a" -> "{\"choices\":[{\"delta\":{\"content\":\"a\"}}]}"
      [] c = "b" -> "{\"choices\":[{\"delta\":{\"content\":\"b\"}}]}"
      [] c = "c" -> "{\"choices\":[{\"delta\":{\"content\":\"c\"}}]}"
      [] c = ""  -> "{\"choices\":[{\"delta\":{\"content\":\"\"}}]}"

BlankLine == Line("", "")
DoneLine == Line(DataPrefix, "[DONE]")
MalformedLine == Line(DataPrefix, "{not json")
OtherLine == Line("", "event: ping")
ContentLine(c) == Line(DataPrefix, ChunkText(c))
NoContentLine == Line(DataPrefix, "{\"choices\":[{\"delta\":{}}]}")
NullContentLine == Line(DataPrefix, "{\"choices\":[{\"delta\":{\"content\":null}}]}")
NoDeltaLine == Line(DataPrefix, "{\"choices\":[{}]}")
NoChoicesLine == Line(DataPrefix, "{\"choices\":[]}")
NullDeltaLine == Line(DataPrefix, "{\"choices\":[{\"delta\":null}]}")
ScalarLine == Line(DataPrefix, "5")

\* Python values: a dict is a function on its keys, a list a sequence.
PyDict(f) == [type |-> "dict", v |-> f]
PyList(s) == [type |-> "list", v |-> s]
PyStr(s) == [type |-> "str", v |-> s]
PyInt(n) == [type |-> "int", v |-> n]
PyNone == [type |-> "NoneType", v |-> 0]
EmptyDict == PyDict(<<>>)

Chunk(delta) == PyDict([choices |-> PyList(<<PyDict([delta |-> delta])>>)])

\* json.loads on the texts of the model's alphabet; any other text ("[DONE]",
\* "{not json") is no JSON document and raises JSONDecodeError.
JsonLoads(s) ==
    CASE s = ChunkText("a") -> [ok |-> TRUE, data |-> Chunk(PyDict([content |-> PyStr("a")]))]
      [] s = ChunkText("b") -> [ok |-> TRUE, data |-> Chunk(PyDict([content |-> PyStr("b")]))]
      [] s = ChunkText("c") -> [ok |-> TRUE, data |-> Chunk(PyDict([content |-> PyStr("c")]))]
      [] s = ChunkText("") -> [ok |-> TRUE, data |-> Chunk(PyDict([content |-> PyStr("")]))]
      [] s = "{\"choices\":[{\"delta\":{}}]}" -> [ok |-> TRUE, data |-> Chunk(EmptyDict)]
      [] s = "{\"choices\":[{\"delta\":{\"content\":null}}]}" ->
            [ok |-> TRUE, data |-> Chunk(PyDict([content |-> PyNone]))]
      [] s = "{\"choices\":[{}]}" ->
            [ok |-> TRUE, data |-> PyDict([choices |-> PyList(<<EmptyDict>>)])]
      [] s = "{\"choices\":[]}" ->
            [ok |-> TRUE, data |-> PyDict([choices |-> PyList(<<>>)])]
      [] s = "{\"choices\":[{\"delta\":null}]}" -> [ok |-> TRUE, data |-> Chunk(PyNone)]
      [] s = "5" -> [ok |-> TRUE, data |-> PyInt(5)]
      [] OTHER -> [ok |-> FALSE, data |-> PyNone]

\* d.get(key, default) on a Python value; on a non-dict it raises
\* AttributeError, which the caller tests with IsDict first.
IsDict(d) == d.type = "dict"
HasKey(d, k) == k \in DOMAIN d.v
DictGet(d, k, default) == IF HasKey(d, k) THEN d.v[k] ELSE default

\* `if content:` Python truthiness of the values content can take
Truthy(x) ==
    CASE x.type = "str" -> x.v # ""
      [] x.type = "NoneType" -> FALSE
      [] x.type = "int" -> x.v # 0
      [] OTHER -> TRUE

ErrorMarker == "Error: Invalid response format from server"
WarningMarker == "Warning: Unexpected response format from server"

Yield(v) == [kind |-> "yield", val |-> v]
Skip == [kind |-> "skip", val |-> ""]
Break == [kind |-> "break", val |-> ""]
Raise(e) == [kind |-> "raise", val |-> e]

\* `if content:` dropped for `if content is not None:`
PayloadYieldsEmpty(data) ==
    IF data.type = "int" THEN Raise("argument of type 'int' is not iterable")
    ELSE IF ~(HasKey(data, "choices") /\ Len(data.v.choices.v) > 0) THEN Skip
    ELSE LET delta == DictGet(data.v.choices.v[1], "delta", EmptyDict) IN
         IF ~IsDict(delta)
         THEN Raise("'NoneType' object has no attribute 'get'")
         ELSE LET content == DictGet(delta, "content", PyStr("")) IN
              IF content.type = "str" THEN Yield(content.v) ELSE Skip

\* The statements of the try block of _process_stream after json.loads: an
\* exception other than JSONDecodeError leaves the generator.
Payload(data) ==
    IF data.type = "int" THEN Raise("argument of type 'int' is not iterable")
    ELSE IF ~(HasKey(data, "choices") /\ Len(data.v.choices.v) > 0) THEN Skip
    ELSE LET delta == DictGet(data.v.choices.v[1], "delta", EmptyDict) IN
         IF ~IsDict(delta)
         THEN Raise("'NoneType' object has no attribute 'get'")
         ELSE LET content == DictGet(delta, "content", PyStr("")) IN
              IF Truthy(content) THEN Yield(content.v) ELSE Skip

\* the except clause missing: JSONDecodeError leaves the generator
DataLineNoExcept(rest) ==
    LET parsed == JsonLoads(rest) IN
    IF parsed.ok THEN Payload(parsed.data) ELSE Raise("Expecting value")

\* try/except of _process_stream for a line that starts with 'data: '
DataLine(rest) ==
    LET parsed == JsonLoads(rest) IN
    IF parsed.ok THEN Payload(parsed.data) ELSE Yield(ErrorMarker)

\* The body of the for loop of _process_stream for one line.
ProcessLine(line) ==
    IF line = BlankLine THEN Skip
    ELSE IF line.prefix = DataPrefix THEN DataLine(line.rest)
    ELSE IF line = DoneLine THEN Break
    ELSE Yield(WarningMarker)

\* next() on the generator _process_stream returns, with p lines read: it
\* reads on until a line yields, breaks or raises, or the body ends.
RECURSIVE GenNext(_, _)
GenNext(lines, p) ==
    IF p >= Len(lines) THEN [kind |-> "stop", val |-> "", pos |-> p]
    ELSE LET e == ProcessLine(lines[p + 1]) IN
         CASE e.kind = "yield" -> [kind |-> "yield", val |-> e.val, pos |-> p + 1]
           [] e.kind = "skip" -> GenNext(lines, p + 1)
           [] e.kind = "break" -> [kind |-> "stop", val |-> "", pos |-> p + 1]
           [] e.kind = "raise" -> [kind |-> "raise", val |-> e.val, pos |-> p + 1]

\* ------------------------------------------------------------- SSE events
SseContent(c) == [key |-> "content", val |-> c]
\* the error event with a fixed text in place of str(e)
SseErrorGeneric(m) == [key |-> "error", val |-> "Internal server error"]

SseError(m) == [key |-> "error", val |-> m]
SseDone == [key |-> "", val |-> "[DONE]"]

\* --------------------------------------------------------- upstream bodies
Frag == <<"a", "b", "c">>
RECURSIVE SeqsUpTo(_, _)
SeqsUpTo(S, n) ==
    IF n = 0 THEN {<<>>}
    ELSE LET shorter == SeqsUpTo(S, n - 1) IN
         shorter \cup {Append(s, x) : s \in {q \in shorter : Len(q) = n - 1}, x \in S}

StreamLines == {BlankLine, DoneLine, MalformedLine, OtherLine, ContentLine("a"),
                ContentLine("b"), ContentLine(""), NullContentLine, NoContentLine, NoDeltaLine,
                NoChoicesLine, NullDeltaLine, ScalarLine}
StreamBodies == SeqsUpTo(StreamLines, MaxLines)

\* Spec: the content lines, then the end of the body or a line that raises
Tails == {<<>>, <<ScalarLine>>}
Bodies == {[i \in 1 .. NumFrags |-> ContentLine(Frag[i])] \o t : t \in Tails}

ConnectErrors == {"Unable to connect to the LM Studio server. Please check if it's running and accessible.",
                  "The request to LM Studio server timed out. Please try again later."}

\* ------------------------------------------------------------------ state
VARIABLES
    generators,   \* the registry: session id -> handle (None: no entry)
    pc,           \* relay -> where generate_stream is
    sid,          \* relay -> session_id of its request
    body,         \* relay -> lines of the upstream response body
    pos,          \* relay -> lines of the body the generator has read
    stop_event,   \* relay -> StoppableGenerator.stop_event of its handle
    cur,          \* relay -> the fragment pulled, the exception caught
    out,          \* relay -> the SSE events it has yielded downstream
    yielded,      \* relay -> <<line number, fragment>> the generator yielded
    outcome,      \* relay -> how its streaming ended: COMPLETED, CANCELLED, FAILED
    dropped,      \* relay -> the handle the del of its finally clause removed
    regLog,       \* relays in the order they registered
    spc,          \* stop request -> where stop_generation is
    ssid,         \* stop request -> its session_id
    target,       \* stop request -> the handle generators[session_id] gave it
    found,        \* stop request -> the handle in the registry at its `in` test
    removed,      \* stop request -> the handle its del removed
    status,       \* stop request -> its response
    sentAtStop    \* relay -> content events it had emitted when a stop call
                  \* first set its flag (-1: no stop call has)

vars == <<generators, pc, sid, body, pos, stop_event, cur, out, yielded, outcome, dropped,
          regLog,
          spc, ssid, target, found, removed, status, sentAtStop>>
relayVars == <<pc, sid, body, pos, stop_event, cur, out, yielded, outcome, dropped>>
stopVars == <<spc, ssid, target, found, removed, status, sentAtStop>>

Init ==
    /\ generators = [s \in SessionIds |-> None]
    /\ pc = [r \in Relays |-> "idle"]
    /\ sid = [r \in Relays |-> NoSession]
    /\ body = [r \in Relays |-> <<>>]
    /\ pos = [r \in Relays |-> 0]
    /\ stop_event = [r \in Relays |-> FALSE]
    /\ cur = [r \in Relays |-> ""]
    /\ out = [r \in Relays |-> <<>>]
    /\ yielded = [r \in Relays |-> <<>>]
    /\ outcome = [r \in Relays |-> ""]
    /\ dropped = [r \in Relays |-> None]
    /\ regLog = <<>>
    /\ spc = [t \in Stoppers |-> "idle"]
    /\ ssid = [t \in Stoppers |-> NoSession]
    /\ target = [t \in Stoppers |-> None]
    /\ found = [t \in Stoppers |-> None]
    /\ removed = [t \in Stoppers |-> None]
    /\ status = [t \in Stoppers |-> ""]
    /\ sentAtStop = [r \in Relays |-> -1]


\* ------------------------------------------------- StoppableGenerator
\* __next__ without its stop_event test
IsSetNever(h) == FALSE

\* stop_event.is_set() at the head of __next__
IsSet(h) == stop_event[h]

\* stop(): stop_event.set()
\* one stop_event shared by all handles
StopHandleAll(ev, h) == [q \in DOMAIN ev |-> TRUE]

StopHandle(ev, h) == [ev EXCEPT ![h] = TRUE]

\* ------------------------------------------------------- the registry
\* session_id in generators
InRegistry(g, s) == g[s] # None

\* generators.setdefault(session_id, stoppable_gen): the first handle stays
RegistryPutIfAbsent(g, s, h) == IF g[s] = None THEN [g EXCEPT ![s] = h] ELSE g

\* generators[session_id] = stoppable_gen
RegistryPut(g, s, h) == [g EXCEPT ![s] = h]

\* del generators[session_id]
RegistryDel(g, s) == [g EXCEPT ![s] = None]

\* ------------------------------------------- generate.generate_stream
\* lm_proxy.generate(model, prompt) for a request with session id s: the POST
\* either raises (connection, timeout) or returns the generator over the
\* response body b, of which nothing is read yet; the StoppableGenerator made
\* of it has a clear stop_event.
\* lm_proxy.generate with its failure swallowed: the stream function goes on to
\* its [DONE] event as if the sequence were empty
GenerateSwallowsError(r, s, b) ==
    /\ pc[r] = "idle"
    /\ sid' = [sid EXCEPT ![r] = s]
    /\ \/ /\ body' = [body EXCEPT ![r] = b]
          /\ pc' = [pc EXCEPT ![r] = "register"]
          /\ UNCHANGED <<cur, outcome>>
       \/ /\ \E e \in ConnectErrors : cur' = [cur EXCEPT ![r] = e]
          /\ pc' = [pc EXCEPT ![r] = "exhausted"]
          /\ outcome' = [outcome EXCEPT ![r] = "FAILED"]
          /\ body' = body
    /\ UNCHANGED <<generators, pos, stop_event, out, yielded, dropped, regLog, stopVars>>

Generate(r, s, b) ==
    /\ pc[r] = "idle"
    /\ sid' = [sid EXCEPT ![r] = s]
    /\ \/ /\ body' = [body EXCEPT ![r] = b]
          /\ pc' = [pc EXCEPT ![r] = "register"]
          /\ UNCHANGED <<cur, outcome>>
       \/ /\ \E e \in ConnectErrors : cur' = [cur EXCEPT ![r] = e]
          /\ pc' = [pc EXCEPT ![r] = "except"]
          /\ outcome' = [outcome EXCEPT ![r] = "FAILED"]
          /\ body' = body
    /\ UNCHANGED <<generators, pos, stop_event, out, yielded, dropped, regLog, stopVars>>

\* generators[session_id] = stoppable_gen
Register(r) ==
    /\ pc[r] = "register"
    /\ generators' = RegistryPut(generators, sid[r], r)
    /\ regLog' = Append(regLog, r)
    /\ pc' = [pc EXCEPT ![r] = "next"]
    /\ UNCHANGED <<sid, body, pos, stop_event, cur, out, yielded, outcome, dropped, stopVars>>

\* a set stop_event raises an error the except clause of generate_stream catches
NextCheckRaises(r) ==
    /\ pc[r] = "next"
    /\ IF IsSet(r)
       THEN /\ pc' = [pc EXCEPT ![r] = "except"]
            /\ outcome' = [outcome EXCEPT ![r] = "CANCELLED"]
       ELSE /\ pc' = [pc EXCEPT ![r] = "pull"]
            /\ outcome' = outcome
    /\ UNCHANGED <<generators, sid, body, pos, stop_event, cur, out, yielded, dropped,
                   regLog, stopVars>>

\* a set stop_event leaves generate_stream at once, past its [DONE] event
NextCheckReturns(r) ==
    /\ pc[r] = "next"
    /\ IF IsSet(r)
       THEN /\ pc' = [pc EXCEPT ![r] = "finally"]
            /\ outcome' = [outcome EXCEPT ![r] = "CANCELLED"]
       ELSE /\ pc' = [pc EXCEPT ![r] = "pull"]
            /\ outcome' = outcome
    /\ UNCHANGED <<generators, sid, body, pos, stop_event, cur, out, yielded, dropped,
                   regLog, stopVars>>

\* StoppableGenerator.__next__, its first statement: a set stop_event raises
\* StopIteration, which ends the for loop.
NextCheck(r) ==
    /\ pc[r] = "next"
    /\ IF IsSet(r)
       THEN /\ pc' = [pc EXCEPT ![r] = "exhausted"]
            /\ outcome' = [outcome EXCEPT ![r] = "CANCELLED"]
       ELSE /\ pc' = [pc EXCEPT ![r] = "pull"]
            /\ outcome' = outcome
    /\ UNCHANGED <<generators, sid, body, pos, stop_event, cur, out, yielded, dropped,
                   regLog, stopVars>>

\* StoppableGenerator.__next__, its second statement: next(self.generator)
Pull(r) ==
    /\ pc[r] = "pull"
    /\ LET res == GenNext(body[r], pos[r]) IN
       /\ pos' = [pos EXCEPT ![r] = res.pos]
       /\ CASE res.kind = "yield" ->
                 /\ cur' = [cur EXCEPT ![r] = res.val]
                 /\ yielded' = [yielded EXCEPT ![r] = Append(@, <<res.pos, res.val>>)]
                 /\ pc' = [pc EXCEPT ![r] = "yield"]
                 /\ outcome' = outcome
            [] res.kind = "stop" ->
                 /\ pc' = [pc EXCEPT ![r] = "exhausted"]
                 /\ outcome' = [outcome EXCEPT ![r] = "COMPLETED"]
                 /\ UNCHANGED <<cur, yielded>>
            [] res.kind = "raise" ->
                 /\ cur' = [cur EXCEPT ![r] = res.val]
                 /\ pc' = [pc EXCEPT ![r] = "except"]
                 /\ outcome' = [outcome EXCEPT ![r] = "FAILED"]
                 /\ UNCHANGED yielded
    /\ UNCHANGED <<generators, sid, body, stop_event, out, dropped, regLog, stopVars>>

\* the content event written twice
EmitContentTwice(r) ==
    /\ pc[r] = "yield"
    /\ out' = [out EXCEPT ![r] = Append(Append(@, SseContent(cur[r])), SseContent(cur[r]))]
    /\ pc' = [pc EXCEPT ![r] = "next"]
    /\ UNCHANGED <<generators, sid, body, pos, stop_event, cur, yielded, outcome, dropped, regLog,
                   stopVars>>

\* the loop over the inner generator itself: after a content event the next
\* pull is made without the stop_event test
EmitContentThenPull(r) ==
    /\ pc[r] = "yield"
    /\ out' = [out EXCEPT ![r] = Append(@, SseContent(cur[r]))]
    /\ pc' = [pc EXCEPT ![r] = "pull"]
    /\ UNCHANGED <<generators, sid, body, pos, stop_event, cur, yielded, outcome, dropped, regLog,
                   stopVars>>

\* yield f"data: {json.dumps({'content': content})}\n\n"
EmitContent(r) ==
    /\ pc[r] = "yield"
    /\ out' = [out EXCEPT ![r] = Append(@, SseContent(cur[r]))]
    /\ pc' = [pc EXCEPT ![r] = "next"]
    /\ UNCHANGED <<generators, sid, body, pos, stop_event, cur, yielded, outcome, dropped, regLog,
                   stopVars>>

\* the for loop has ended on StopIteration: yield "data: [DONE]\n\n"
EmitDone(r) ==
    /\ pc[r] = "exhausted"
    /\ out' = [out EXCEPT ![r] = Append(@, SseDone)]
    /\ pc' = [pc EXCEPT ![r] = "finally"]
    /\ UNCHANGED <<generators, sid, body, pos, stop_event, cur, yielded, outcome, dropped, regLog,
                   stopVars>>

\* the except clause inside the try of the loop: after the error event the
\* function runs on to its [DONE] event
EmitErrorThenDone(r) ==
    /\ pc[r] = "except"
    /\ out' = [out EXCEPT ![r] = Append(@, SseError(cur[r]))]
    /\ pc' = [pc EXCEPT ![r] = "exhausted"]
    /\ UNCHANGED <<generators, sid, body, pos, stop_event, cur, yielded, outcome, dropped, regLog,
                   stopVars>>

\* except Exception as e: yield f"data: {json.dumps({'error': str(e)})}\n\n"
EmitError(r) ==
    /\ pc[r] = "except"
    /\ out' = [out EXCEPT ![r] = Append(@, SseError(cur[r]))]
    /\ pc' = [pc EXCEPT ![r] = "finally"]
    /\ UNCHANGED <<generators, sid, body, pos, stop_event, cur, yielded, outcome, dropped, regLog,
                   stopVars>>

\* generate_stream without its finally clause
FinallyCheckSkips(r) ==
    /\ pc[r] = "finally"
    /\ pc' = [pc EXCEPT ![r] = "done"]
    /\ UNCHANGED <<generators, sid, body, pos, stop_event, cur, out, yielded, outcome,
                   dropped, regLog, stopVars>>

\* finally: if session_id in generators:
FinallyCheck(r) ==
    /\ pc[r] = "finally"
    /\ pc' = [pc EXCEPT ![r] = IF InRegistry(generators, sid[r]) THEN "del" ELSE "done"]
    /\ UNCHANGED <<generators, sid, body, pos, stop_event, cur, out, yielded, outcome,
                   dropped, regLog, stopVars>>

\* the finally clause with its del left out
FinallyDelKeeps(r) ==
    /\ pc[r] = "del"
    /\ pc' = [pc EXCEPT ![r] = "done"]
    /\ UNCHANGED <<generators, dropped>>
    /\ UNCHANGED <<sid, body, pos, stop_event, cur, out, yielded, outcome, regLog, stopVars>>

\* del generators[session_id]: KeyError when the key has gone since the test;
\* the exception leaves the generator and the response breaks off.
FinallyDel(r) ==
    /\ pc[r] = "del"
    /\ IF InRegistry(generators, sid[r])
       THEN /\ generators' = RegistryDel(generators, sid[r])
            /\ dropped' = [dropped EXCEPT ![r] = generators[sid[r]]]
            /\ pc' = [pc EXCEPT ![r] = "done"]
       ELSE /\ UNCHANGED <<generators, dropped>>
            /\ pc' = [pc EXCEPT ![r] = "KeyError"]
    /\ UNCHANGED <<sid, body, pos, stop_event, cur, out, yielded, outcome, regLog, stopVars>>

\* ----------------------------------------------------- stop_generation
\* stop_generation without its `in` test
StopCheckNoTest(t, s) ==
    /\ spc[t] = "idle"
    /\ ssid' = [ssid EXCEPT ![t] = s]
    /\ found' = [found EXCEPT ![t] = generators[s]]
    /\ spc' = [spc EXCEPT ![t] = "lookup"]
    /\ UNCHANGED <<generators, relayVars, regLog, target, removed, status, sentAtStop>>

\* if session_id in generators: ... else the 404 response
StopCheck(t, s) ==
    /\ spc[t] = "idle"
    /\ ssid' = [ssid EXCEPT ![t] = s]
    /\ found' = [found EXCEPT ![t] = generators[s]]
    /\ IF InRegistry(generators, s)
       THEN /\ spc' = [spc EXCEPT ![t] = "lookup"]
            /\ status' = status
       ELSE /\ spc' = [spc EXCEPT ![t] = "done"]
            /\ status' = [status EXCEPT ![t] = "not found"]
    /\ UNCHANGED <<generators, relayVars, regLog, target, removed, sentAtStop>>

\* generators[session_id]: KeyError when the key has gone since the test; the
\* errorhandler answers 500.
StopLookup(t) ==
    /\ spc[t] = "lookup"
    /\ IF InRegistry(generators, ssid[t])
       THEN /\ target' = [target EXCEPT ![t] = generators[ssid[t]]]
            /\ spc' = [spc EXCEPT ![t] = "stop"]
            /\ status' = status
       ELSE /\ target' = target
            /\ spc' = [spc EXCEPT ![t] = "done"]
            /\ status' = [status EXCEPT ![t] = "error"]
    /\ UNCHANGED <<generators, relayVars, regLog, ssid, found, removed, sentAtStop>>

\* .stop()
StopSet(t) ==
    /\ spc[t] = "stop"
    /\ stop_event' = StopHandle(stop_event, target[t])
    /\ sentAtStop' = IF stop_event[target[t]] THEN sentAtStop
                     ELSE [sentAtStop EXCEPT ![target[t]] =
                              Len(SelectSeq(out[target[t]], LAMBDA e : e.key = "content"))]
    /\ spc' = [spc EXCEPT ![t] = "del"]
    /\ UNCHANGED <<generators, pc, sid, body, pos, cur, out, yielded, outcome, dropped, regLog,
                   ssid, target, found, removed, status>>

\* del generators[session_id], then the 200 response; KeyError (500) when the
\* key has gone since the lookup.
StopDel(t) ==
    /\ spc[t] = "del"
    /\ IF InRegistry(generators, ssid[t])
       THEN /\ removed' = [removed EXCEPT ![t] = generators[ssid[t]]]
            /\ generators' = RegistryDel(generators, ssid[t])
            /\ status' = [status EXCEPT ![t] = "stopped"]
       ELSE /\ removed' = removed
            /\ generators' = generators
            /\ status' = [status EXCEPT ![t] = "error"]
    /\ spc' = [spc EXCEPT ![t] = "done"]
    /\ UNCHANGED <<relayVars, regLog, ssid, target, found, sentAtStop>>

\* ----------------------------------------------------- specifications
RelayStep(r) ==
    \/ Register(r)
    \/ NextCheck(r)
    \/ Pull(r)
    \/ EmitContent(r)
    \/ EmitDone(r)
    \/ EmitError(r)
    \/ FinallyCheck(r)
    \/ FinallyDel(r)

StopStep(t) ==
    \/ \E s \in SessionIds : StopCheck(t, s)
    \/ StopLookup(t)
    \/ StopSet(t)
    \/ StopDel(t)

\* Concurrent relays and stop requests over short bodies.
Next ==
    \/ \E r \in Relays :
          pc[r] = "idle" /\ \E s \in SessionIds, b \in Bodies : Generate(r, s, b)
    \/ \E r \in Relays : RelayStep(r)
    \/ \E t \in Stoppers : StopStep(t)

Spec == Init /\ [][Next]_vars

\* One relay over every body of the line alphabet, and one stop request.
NextStream ==
    \/ pc[1] = "idle" /\ \E b \in StreamBodies : Generate(1, "s1", b)
    \/ RelayStep(1)
    \/ StopStep(1)

SpecStream == Init /\ [][NextStream]_vars


\* Concurrent relays and one stop request, with the relay workers scheduled
\* fairly: a worker thread that can take its next step does take it (the pull
\* in flight returns, the consumer reads the event yielded). Requests arrive
\* or not, and the stop request's worker is under no such assumption.
NextFair ==
    \/ \E r \in Relays :
          pc[r] = "idle" /\ \E s \in SessionIds, b \in Bodies : Generate(r, s, b)
    \/ \E r \in Relays : RelayStep(r)
    \/ StopStep(1)

SpecFair == Init /\ [][NextFair]_vars /\ \A r \in Relays : WF_vars(RelayStep(r))

\* ============================================================== claims
\* What the claims speak of, said without the code's parser.
Terminated(r) == pc[r] \in {"done", "KeyError"}
LinesRead(r) == 1 .. pos[r]
YieldsAt(r, i) == {k \in DOMAIN yielded[r] : yielded[r][k][1] = i}
YieldsExactly(r, i, f) ==
    /\ Cardinality(YieldsAt(r, i)) = 1
    /\ \A k \in YieldsAt(r, i) : yielded[r][k][2] = f
InOrder(r) ==
    \A j, k \in DOMAIN yielded[r] : j < k => yielded[r][j][1] < yielded[r][k][1]
\* the sequence has ended at line i although lines follow and nobody stopped it
EndedAt(r, i) ==
    /\ pos[r] = i
    /\ i < Len(body[r])
    /\ outcome[r] \in {"COMPLETED", "FAILED"}
Contents == {"a", "b", "c"}
IsContent(line) == \E c \in Contents : line = ContentLine(c)
ContentOf(line) == CHOOSE c \in Contents : line = ContentLine(c)
NotJsonTexts == {"{not json", "[DONE]"}
IsMalformed(line) == line.prefix = DataPrefix /\ line.rest \in NotJsonTexts
NoContentLines == {ContentLine(""), NullContentLine, NoContentLine, NoDeltaLine,
                   NoChoicesLine}
ContentEvents(r) == SelectSeq(out[r], LAMBDA e : e.key = "content")
DoneEvents(r) == SelectSeq(out[r], LAMBDA e : e = SseDone)
ErrorEvents(r) == SelectSeq(out[r], LAMBDA e : e.key = "error")

\* C1: a body of N lines with non-empty delta content followed by `data: [DONE]`,
\* relayed with no stop, gives exactly the N content events in order, then one
\* [DONE] event and nothing else.
ContentsThenDone(b) ==
    /\ Len(b) >= 1
    /\ b[Len(b)] = DoneLine
    /\ \A i \in 1 .. Len(b) - 1 : IsContent(b[i])
C1_ContentsThenDone ==
    \A r \in Relays :
        (Terminated(r) /\ ~stop_event[r] /\ ContentsThenDone(body[r]))
        => out[r] = [i \in 1 .. Len(body[r]) - 1 |-> SseContent(ContentOf(body[r][i]))]
                    \o <<SseDone>>

\* C8: a line equal to `data: [DONE]` ends the fragment sequence: nothing is
\* yielded for it and no later line is read.
C8_DoneLineEndsSequence ==
    \A r \in Relays : \A i \in LinesRead(r) :
        body[r][i] = DoneLine => YieldsAt(r, i) = {} /\ pos[r] = i

\* C9: a `data: ` line whose remainder is no JSON yields exactly one error
\* marker and does not end the sequence; every content line read after it
\* yields its fragment, in order.
C9_MalformedLineYieldsMarker ==
    \A r \in Relays : \A i \in LinesRead(r) :
        IsMalformed(body[r][i]) =>
            /\ YieldsExactly(r, i, ErrorMarker)
            /\ ~EndedAt(r, i)
            /\ \A j \in LinesRead(r) :
                  (j > i /\ IsContent(body[r][j])) => YieldsExactly(r, j, ContentOf(body[r][j]))
            /\ InOrder(r)

C9_Witness ==
    /\ body[1] = <<MalformedLine, ContentLine("a"), ContentLine("b")>>
    /\ yielded[1] = <<<<1, ErrorMarker>>, <<2, "a">>, <<3, "b">>>>
    /\ out[1] = <<SseContent(ErrorMarker), SseContent("a"), SseContent("b"), SseDone>>

RegIndex(r) == IF \E k \in DOMAIN regLog : regLog[k] = r
               THEN CHOOSE k \in DOMAIN regLog : regLog[k] = r
               ELSE 0
RegisteredBefore(r1, r2) == RegIndex(r1) > 0 /\ RegIndex(r1) < RegIndex(r2)
\* the relay that registered last under session id s
IsLatest(r, s) ==
    /\ RegIndex(r) > 0
    /\ sid[r] = s
    /\ \A q \in Relays : (sid[q] = s /\ RegIndex(q) > 0) => RegIndex(q) <= RegIndex(r)
Stopped(t) == spc[t] = "done"
Emitted(r) == pc[r] \in {"finally", "del", "done", "KeyError"}

\* C2: a stop call that finds handle h under its session id sets the flag of
\* h, removes that entry and no entry of another handle, and answers
\* `stopped`, whatever relays do under the same id meanwhile.
C2_StopCancelsAndRemovesItsHandle ==
    \A t \in Stoppers :
        (Stopped(t) /\ found[t] # None) =>
            /\ status[t] = "stopped"
            /\ stop_event[found[t]]
            /\ generators[ssid[t]] # found[t]
            /\ removed[t] = found[t]

\* C3: a stop call for a session id with no registry entry answers `not
\* found` and changes neither the registry nor any flag nor any relay.
C3_StopOfAbsentIdChangesNothing ==
    [][\A t \in Stoppers :
          (spc[t] = "idle" /\ spc'[t] # "idle" /\ generators[ssid'[t]] = None) =>
              /\ status'[t] = "not found"
              /\ spc'[t] = "done"
              /\ generators' = generators
              /\ stop_event' = stop_event
              /\ relayVars' = relayVars
              /\ target'[t] = None /\ removed'[t] = None]_vars

C3_Witness ==
    \E t \in Stoppers : \E r \in Relays :
        /\ status[t] = "not found"
        /\ ssid[t] # sid[r]
        /\ pc[r] = "pull"
        /\ generators[sid[r]] = r
        /\ ~stop_event[r]

\* C4 as claimed: a relay whose cancellation flag was found set never emits a
\* [DONE] event.
C4_CancelledNeverEmitsDone ==
    \A r \in Relays : outcome[r] = "CANCELLED" => DoneEvents(r) = <<>>

\* C4 as amended: [DONE] is emitted when the loop over the handle ends without
\* a raise, be it on exhaustion or on a flag found set: such a relay emits one
\* [DONE] event, as its last event, and no error event; a failed relay emits
\* no [DONE] event.
C4_DoneWhenLoopEndsWithoutRaise ==
    \A r \in Relays :
        /\ DoneEvents(r) # <<>> => outcome[r] \in {"COMPLETED", "CANCELLED"}
        /\ (outcome[r] \in {"COMPLETED", "CANCELLED"} /\ Emitted(r)) =>
              /\ Len(DoneEvents(r)) = 1
              /\ out[r][Len(out[r])] = SseDone
              /\ ErrorEvents(r) = <<>>
        /\ outcome[r] = "FAILED" => DoneEvents(r) = <<>>

C4_Witness ==
    \E r \in Relays :
        /\ outcome[r] = "CANCELLED"
        /\ pc[r] = "done"
        /\ pos[r] < Len(body[r])
        /\ out[r] = <<SseContent("a"), SseDone>>

\* C5: a set flag stays set, and a pull that begins with the flag set yields
\* no fragment and reads no upstream line; lines are read by pulls only.
C5_FlagMonotonicAndPullStops ==
    [][\A r \in Relays :
          /\ stop_event[r] => stop_event'[r]
          /\ (pc[r] = "next" /\ stop_event[r] /\ pc'[r] # "next") =>
                /\ pc'[r] = "exhausted"
                /\ pos'[r] = pos[r]
                /\ yielded'[r] = yielded[r]
                /\ out'[r] = out[r]
          /\ pos'[r] # pos[r] => pc[r] = "pull"]_vars

C5_Witness ==
    \E r \in Relays :
        /\ stop_event[r]
        /\ outcome[r] = "CANCELLED"
        /\ pc[r] = "exhausted"
        /\ Len(yielded[r]) = 1
        /\ pos[r] < Len(body[r])

\* C6: with two relays registered one after the other under one session id
\* and neither terminated, the registry maps the id to the second (until a
\* del removes that entry), and a stop call that found the second sets the
\* second's flag and leaves the first's as it is.
BothLive(r1, r2) ==
    /\ r1 # r2
    /\ sid[r1] = sid[r2]
    /\ outcome[r1] = "" /\ outcome[r2] = ""
    /\ RegisteredBefore(r1, r2)
    /\ IsLatest(r2, sid[r2])
C7_StopAndRemovalNeverRaise ==
    /\ \A r \in Relays : pc[r] # "KeyError"
    /\ \A t \in Stoppers : Stopped(t) => status[t] \in {"stopped", "not found"}

\* C11: the terminal events exclude each other: a relay emits at most one
\* terminal event, a [DONE] or an error event, never both and never one twice,
\* and no content event after it.
IsTerminalEvent(e) == e = SseDone \/ e.key = "error"
C11_TerminalEventsExclusive ==
    \A r \in Relays :
        /\ Len(DoneEvents(r)) + Len(ErrorEvents(r)) <= 1
        /\ \A i \in DOMAIN out[r] : IsTerminalEvent(out[r][i]) => i = Len(out[r])

C11_Witness ==
    /\ body[1] = <<ContentLine("a"), ScalarLine, ContentLine("b")>>
    /\ pc[1] = "done"
    /\ Len(out[1]) = 2
    /\ out[1][1] = SseContent("a")
    /\ out[1][2].key = "error"

\* C12: a relay whose construction of the fragment sequence failed is FAILED at
\* once: it never registers a handle of its own, pulls nothing, and emits
\* exactly one event, the error event carrying the failure's message: no
\* content event and no [DONE].
ConstructFailed(r) == outcome[r] = "FAILED" /\ cur[r] \in ConnectErrors
C12_ConstructFailureOnlyErrorEvent ==
    \A r \in Relays :
        ConstructFailed(r) =>
            /\ RegIndex(r) = 0
            /\ \A s \in SessionIds : generators[s] # r
            /\ yielded[r] = <<>>
            /\ out[r] = IF Emitted(r) THEN <<SseError(cur[r])>> ELSE <<>>

C12_Witness ==
    \E r \in Relays :
        /\ ConstructFailed(r)
        /\ Terminated(r)
        /\ out[r] = <<SseError(cur[r])>>
        /\ \E q \in Relays : q # r /\ sid[q] = sid[r] /\ pc[q] = "yield"

\* C13: a relay whose pull raised after k fragments is FAILED and emits exactly
\* those k fragments as content events, in order, then exactly one error event
\* carrying the string of the error raised, and no [DONE].
PullFailed(r) == outcome[r] = "FAILED" /\ cur[r] \notin ConnectErrors
\* str(e) of the exception the line makes the parser raise
RaiseText(line) ==
    IF line = ScalarLine THEN "argument of type 'int' is not iterable"
    ELSE IF line = NullDeltaLine THEN "'NoneType' object has no attribute 'get'"
    ELSE ""
FragmentsAsEvents(r) ==
    [i \in 1 .. Len(yielded[r]) |-> [key |-> "content", val |-> yielded[r][i][2]]]
C13_PullFailureAfterKFragments ==
    \A r \in Relays :
        PullFailed(r) =>
            /\ pos[r] \in DOMAIN body[r]
            /\ RaiseText(body[r][pos[r]]) # ""
            /\ out[r] = IF Emitted(r)
                        THEN Append(FragmentsAsEvents(r),
                                    [key |-> "error", val |-> RaiseText(body[r][pos[r]])])
                        ELSE FragmentsAsEvents(r)

C13_Witness ==
    /\ PullFailed(1)
    /\ Terminated(1)
    /\ body[1] = <<ContentLine("a"), ContentLine("b"), NullDeltaLine>>
    /\ Len(yielded[1]) = 2
    /\ Len(out[1]) = 3

\* C14: a relay whose check before a pull found its flag set pulls no more
\* (it reads no further line and receives no further fragment) and emits no
\* error event.
C14_CancelledStopsPullingNoError ==
    /\ [](\A r \in Relays : outcome[r] = "CANCELLED" => ErrorEvents(r) = <<>>)
    /\ [][\A r \in Relays :
            outcome[r] = "CANCELLED" =>
                /\ pc'[r] # "pull"
                /\ pos'[r] = pos[r]
                /\ yielded'[r] = yielded[r]]_vars

C14_Witness ==
    /\ outcome[1] = "CANCELLED"
    /\ Terminated(1)
    /\ body[1] = <<ContentLine("a"), ContentLine("b"), ScalarLine>>
    /\ pos[1] = 1
    /\ out[1] = <<SseContent("a"), SseDone>>

\* C15: once a stop call has set a relay's flag, the relay emits at most one
\* further content event, the one of the pull that was in flight, whatever the
\* interleaving.
C15_AtMostOneContentAfterStop ==
    \A r \in Relays :
        stop_event[r] =>
            /\ sentAtStop[r] >= 0
            /\ Len(ContentEvents(r)) <= sentAtStop[r] + 1

C15_Witness ==
    \E r \in Relays :
        /\ stop_event[r]
        /\ Terminated(r)
        /\ sentAtStop[r] = 1
        /\ Len(ContentEvents(r)) = 2
        /\ Len(body[r]) > 2

\* C16: in every reachable state, whatever the outcome, the content events a
\* relay has emitted are a prefix of the fragments its upstream sequence has
\* produced, in the order received: none dropped, duplicated or reordered.
IsPrefixOfFragments(events, frags) ==
    /\ Len(events) <= Len(frags)
    /\ \A i \in DOMAIN events : events[i] = [key |-> "content", val |-> frags[i][2]]
C16_ContentEventsPrefixOfFragments ==
    \A r \in Relays :
        /\ IsPrefixOfFragments(ContentEvents(r), yielded[r])
        /\ Len(yielded[r]) - Len(ContentEvents(r)) <= (IF pc[r] = "yield" THEN 1 ELSE 0)

C16_Witness ==
    /\ body[1] = <<ContentLine("b"), MalformedLine, ContentLine("a")>>
    /\ pc[1] = "yield"
    /\ Len(yielded[1]) = 3
    /\ ContentEvents(1) = <<SseContent("b"), SseContent(ErrorMarker)>>

\* C17: with the relay workers scheduled fairly, a relay whose flag a stop
\* call has set eventually ends, and from then on the registry holds no entry
\* for its handle; the stop call never waits for the relay: each of its steps
\* can be taken whatever the relay is doing.
C17_StoppedRelayEndsAndLeavesRegistry ==
    /\ \A r \in Relays :
          stop_event[r] ~> [](Terminated(r) /\ \A s \in SessionIds : generators[s] # r)
    /\ [](\A t \in Stoppers : spc[t] \in {"lookup", "stop", "del"} => ENABLED StopStep(t))

C17_Witness ==
    \E r \in Relays :
        /\ stop_event[r]
        /\ outcome[r] = "CANCELLED"
        /\ Terminated(r)
        /\ spc[1] = "del"
        /\ \A s \in SessionIds : generators[s] # r

\* C18: a step of a relay or of a stop call for session id X leaves alone,
\* for every other id Y, the registry entry of Y and the cancellation flag of
\* every handle of a request made under Y.
OthersUntouched(X) ==
    \A Y \in SessionIds \ {X} :
        /\ generators'[Y] = generators[Y]
        /\ \A h \in Relays : sid[h] = Y => stop_event'[h] = stop_event[h]
C18_StepsScopedToOwnSession ==
    [][/\ \A r \in Relays : pc'[r] # pc[r] => OthersUntouched(sid'[r])
       /\ \A t \in Stoppers : spc'[t] # spc[t] => OthersUntouched(ssid'[t])]_vars

C18_Witness ==
    \E t \in Stoppers, r1, r2 \in Relays :
        /\ Stopped(t) /\ status[t] = "stopped" /\ ssid[t] = "s1"
        /\ sid[r1] = "s1" /\ stop_event[r1] /\ Terminated(r1)
        /\ sid[r2] = "s2" /\ ~stop_event[r2] /\ generators["s2"] = r2 /\ pc[r2] = "yield"

\* C19: a relay that is still streaming, registered last under its session id
\* and with its flag not set, is the handle the registry maps that id to,
\* whatever earlier relays or failed requests under the same id do.
Streaming(r) == RegIndex(r) > 0 /\ outcome[r] = ""
C19_LatestStreamingRelayIsRegistered ==
    \A r \in Relays :
        (Streaming(r) /\ ~stop_event[r] /\ IsLatest(r, sid[r])) => generators[sid[r]] = r

\* C20: the registry never holds a stale handle: every handle stored in it
\* belongs to a relay that has not yet finished its final removal step, so
\* once every relay that started has ended the registry is empty.
C20_NoStaleHandle ==
    /\ \A s \in SessionIds :
          InRegistry(generators, s) =>
              /\ generators[s] \in Relays
              /\ sid[generators[s]] = s
              /\ ~Terminated(generators[s])
    /\ (\A r \in Relays : pc[r] = "idle" \/ Terminated(r))
          => \A s \in SessionIds : ~InRegistry(generators, s)

C20_Witness ==
    /\ \A r \in Relays : Terminated(r) /\ RegIndex(r) > 0 /\ sid[r] = "s1"
    /\ \E r \in Relays : pc[r] = "KeyError"
    /\ \A t \in Stoppers : Stopped(t) /\ ssid[t] = "s1"
    /\ \A s \in SessionIds : ~InRegistry(generators, s)

====
